---- MODULE Spec2Model ----
(***************************************************************************)
(* Model of functions/src/index.ts: the Tower of Hanoi solver              *)
(* (HanoiCloudSolver.generateSolution, solveHanoi, validateSolution,       *)
(* isValidMove) and the callable getTowerOfHanoiSolution around it.        *)
(*                                                                         *)
(* A JavaScript number is modelled as an integer count of 1/Scale units,   *)
(* so that the non-integer arguments the code accepts (2.5, ...) are       *)
(* inputs of the model; the integer k is Num(k).                           *)
(***************************************************************************)
EXTENDS Integers, Sequences, FiniteSets, TLC

\* Units per 1: numbers are held in halves.
Scale == 2

\* Smallest and largest disk count generateSolution accepts.
MinDisks == 1
MaxDisks == 8

\* Largest number tried as an input (the smallest is -1).
MaxInput == 10

Num(k) == k * Scale

IsInteger(x) == x % Scale = 0

\* Number -> string conversion of a template literal, `${x}`.
NumToString(x) ==
    IF IsInteger(x)
    THEN ToString(x \div Scale)
    ELSE ToString(x \div Scale) \o "." \o ToString(((x % Scale) * 10) \div Scale)

RECURSIVE Pow2(_)
Pow2(k) == IF k <= 0 THEN 1 ELSE 2 * Pow2(k - 1)

rodNames == <<"A", "B", "C">>

validRods == {"A", "B", "C"}

\* Messages of the errors the code throws.
RangeErrorText == "Number of disks must be between 1 and 8."
NotANumberText == "numberOfDisks must be a number."
OutOfRangeText == "numberOfDisks must be between 1 and 8."
InternalErrorText == "Internal server error."

NoError == ""
NoSolution == [source |-> "none"]
NoResponse == [success |-> FALSE, error |-> "none"]
NoInvocation == [pc |-> "none"]
NoResult == "none"

\* The values request.data.numberOfDisks is drawn from.
InputNumbers == (-Scale)..Num(MaxInput)

RequestValues ==
    [type : {"number"}, val : InputNumbers]
        \cup {[type |-> "undefined", val |-> 0], [type |-> "string", val |-> Num(3)]}

VARIABLES
    pc,             \* position of the program
    entry,          \* "solver": generateSolution called directly; "handler": through the callable
    input,          \* request.data.numberOfDisks
    numberOfDisks,  \* generateSolution's argument
    i,              \* the initialisation loop's counter
    simulationRods, \* <<>> before allocation, then three stacks, bottom first
    moves,          \* the moves collected so far
    stack,          \* active solveHanoi calls, innermost last
    error,          \* message of the error generateSolution threw
    solution,       \* generateSolution's return value
    response,       \* the callable's response
    entered,        \* for each active solveHanoi call, the rods and move count it was called with
    parked,         \* the locals of another invocation, which is not the one running
    result          \* the value a direct call of validateSolution returned

vars == <<pc, entry, input, numberOfDisks, i, simulationRods, moves, stack,
          error, solution, response, entered, parked, result>>

----------------------------------------------------------------------------
(* generateSolution: input validation *)

OutOfRangeLoose(n) == n < 0 \/ n > Num(MaxDisks)

OutOfRange(n) == n < Num(MinDisks) \/ n > Num(MaxDisks)

StaleMoves == moves

\* const moves: HanoiMove[] = [].
NewMoves == <<>>

\* const simulationRods: number[][] = [[], [], []].
NewRods == <<<<>>, <<>>, <<>>>>

----------------------------------------------------------------------------
(* solveHanoi *)

Frame(n, from, to, auxiliary) ==
    [n |-> n, from |-> from, to |-> to, auxiliary |-> auxiliary, at |-> "entry"]

RejectedUnlessSameRods(f) ==
    \/ f.n <= 0
    \/ f.from < 0 \/ f.from > 2 \/ f.to < 0 \/ f.to > 2
    \/ f.auxiliary < 0 \/ f.auxiliary > 2

\* The safety checks at the head of solveHanoi.
Rejected(f) ==
    \/ f.n <= 0
    \/ f.from < 0 \/ f.from > 2 \/ f.to < 0 \/ f.to > 2
    \/ f.auxiliary < 0 \/ f.auxiliary > 2
    \/ f.from = f.to \/ f.from = f.auxiliary \/ f.to = f.auxiliary

Rod(rods, r) == rods[r + 1]

Top(s) == s[Len(s)]

PushWithoutPop(rods, from, to) ==
    [rods EXCEPT ![to + 1] = Append(@, Top(Rod(rods, from)))]

\* rods[from].pop() followed by rods[to].push(disk).
PopPush(rods, from, to) ==
    LET disk == Top(Rod(rods, from))
        popped == [rods EXCEPT ![from + 1] = SubSeq(@, 1, Len(@) - 1)]
    IN  [popped EXCEPT ![to + 1] = Append(@, disk)]

MoveIdFromZero(k) == "move-" \o ToString(k - 1)

\* The id of the k-th move.
MoveId(k) == "move-" \o ToString(k)

Description(disk, from, to) ==
    "Take disk " \o NumToString(disk) \o " from rod " \o rodNames[from + 1]
        \o " to rod " \o rodNames[to + 1]

HanoiMove(k, from, to, disk) ==
    [id |-> MoveId(k),
     from |-> rodNames[from + 1],
     to |-> rodNames[to + 1],
     disk |-> disk,
     description |-> Description(disk, from, to)]

PushMoveTwice(mvs, from, to, disk) ==
    LET once == Append(mvs, HanoiMove(Len(mvs) + 1, from, to, disk))
    IN  Append(once, HanoiMove(Len(once) + 1, from, to, disk))

PushMoveReversed(mvs, from, to, disk) ==
    Append(mvs, HanoiMove(Len(mvs) + 1, to, from, disk))

\* moves.push({id: `move-${moves.length + 1}`, ...}).
PushMove(mvs, from, to, disk) ==
    Append(mvs, HanoiMove(Len(mvs) + 1, from, to, disk))

Phase1ToDestination(f) == Frame(f.n - Num(1), f.from, f.to, f.auxiliary)

\* Phase 1: solveHanoi(n - 1, from, auxiliary, to, ...).
Phase1Frame(f) == Frame(f.n - Num(1), f.from, f.auxiliary, f.to)

Phase3Skipped(f) == Frame(0, f.auxiliary, f.to, f.from)

\* Phase 3: solveHanoi(n - 1, auxiliary, to, from, ...).
Phase3Frame(f) == Frame(f.n - Num(1), f.auxiliary, f.to, f.from)

Return(stk) == SubSeq(stk, 1, Len(stk) - 1)

IsBaseCaseNever(f) == FALSE

\* n === 1.
IsBaseCase(f) == f.n = Num(1)

\* What a call of solveHanoi starts from: the rods, and the moves so far.
Snapshot(rods, mvs) == [rods |-> rods, count |-> Len(mvs)]

\* `entered` follows the stack: a call adds what it starts from, a return
\* removes it.
TrackCalls ==
    entered' = IF Len(stack') > Len(stack)
               THEN Append(entered, Snapshot(simulationRods', moves'))
               ELSE IF Len(stack') < Len(stack) THEN Return(entered)
               ELSE entered

At(stk, where) == [stk EXCEPT ![Len(stk)].at = where]

----------------------------------------------------------------------------
(* validateSolution, isValidMove *)

IsValidMoveAboveOne(move) ==
    /\ move.from \in validRods
    /\ move.to \in validRods
    /\ move.from # move.to
    /\ move.disk > Num(1)

isValidMove(move) ==
    /\ move.from \in validRods
    /\ move.to \in validRods
    /\ move.from # move.to
    /\ move.disk > 0

\* moves.length === Math.pow(2, numberOfDisks) - 1. Math.pow(2, x) is an
\* integer only at an integer x >= 0, so no length equals it elsewhere.
hasCorrectMoveCount(mvs, n) ==
    /\ IsInteger(n)
    /\ n >= 0
    /\ Len(mvs) = Pow2(n \div Scale) - 1

validateSolution(mvs, n) ==
    /\ hasCorrectMoveCount(mvs, n)
    /\ \A k \in 1..Len(mvs) : isValidMove(mvs[k])

HanoiSolution(n, mvs) ==
    [numberOfDisks |-> n,
     moves |-> mvs,
     totalMoves |-> Len(mvs),
     source |-> "cloud_generated",
     isValid |-> validateSolution(mvs, n)]

----------------------------------------------------------------------------
(* getTowerOfHanoiSolution *)

\* !numberOfDisks: undefined and 0 are falsy (a non-empty string is not).
Falsy(d) == d.type = "undefined" \/ (d.type = "number" /\ d.val = 0)

\* The HttpsError message the validation throws, NoError when it passes.
HandlerValidation(d) ==
    IF Falsy(d) \/ d.type # "number" THEN NotANumberText
    ELSE IF d.val < Num(MinDisks) \/ d.val > Num(MaxDisks) THEN OutOfRangeText
    ELSE NoError

\* The catch block: whatever was thrown, the same response.
CatchResponse(thrown) == [success |-> FALSE, error |-> InternalErrorText]

SuccessResponse(sol) == [success |-> TRUE, solution |-> sol]

----------------------------------------------------------------------------
Init ==
    /\ pc = "idle"
    /\ entry = "none"
    /\ input = [type |-> "undefined", val |-> 0]
    /\ numberOfDisks = 0
    /\ i = 0
    /\ simulationRods = <<>>
    /\ moves = <<>>
    /\ stack = <<>>
    /\ error = NoError
    /\ solution = NoSolution
    /\ response = NoResponse
    /\ entered = <<>>
    /\ parked = NoInvocation
    /\ result = NoResult

\* A direct call generateSolution(x).
CallGenerateSolution ==
    /\ pc = "idle"
    /\ \E x \in InputNumbers :
        /\ numberOfDisks' = x
        /\ input' = [type |-> "number", val |-> x]
    /\ entry' = "solver"
    /\ pc' = "generate"
    /\ UNCHANGED <<i, simulationRods, moves, stack, error, solution, response>>
    /\ UNCHANGED <<entered, parked, result>>

\* A request reaches the callable: lines 188-200, then the call of line 206
\* or the catch block.
HandleRequest ==
    /\ pc = "idle"
    /\ \E d \in RequestValues :
        /\ input' = d
        /\ IF HandlerValidation(d) # NoError
           THEN /\ response' = CatchResponse(HandlerValidation(d))
                /\ pc' = "done"
                /\ UNCHANGED numberOfDisks
           ELSE /\ numberOfDisks' = d.val
                /\ pc' = "generate"
                /\ UNCHANGED response
    /\ entry' = "handler"
    /\ UNCHANGED <<i, simulationRods, moves, stack, error, solution>>
    /\ UNCHANGED <<entered, parked, result>>

\* generateSolution, lines 60-65: the range check, then the allocations.
GenValidate ==
    /\ pc = "generate"
    /\ IF OutOfRange(numberOfDisks)
       THEN /\ error' = RangeErrorText
            /\ pc' = "thrown"
            /\ UNCHANGED <<i, simulationRods, moves>>
       ELSE /\ moves' = NewMoves
            /\ simulationRods' = NewRods
            /\ i' = numberOfDisks
            /\ pc' = "init"
            /\ UNCHANGED error
    /\ UNCHANGED <<entry, input, numberOfDisks, stack, solution, response>>
    /\ UNCHANGED <<entered, parked, result>>

\* One turn of the loop of lines 68-70.
GenInitLoop ==
    /\ pc = "init"
    /\ i >= Num(1)
    /\ simulationRods' = [simulationRods EXCEPT ![1] = Append(@, i)]
    /\ i' = i - Num(1)
    /\ UNCHANGED <<pc, entry, input, numberOfDisks, moves, stack, error,
                   solution, response>>
    /\ UNCHANGED <<entered, parked, result>>

\* Line 73: the loop is over, solveHanoi(numberOfDisks, 0, 2, 1, ...) is called.
GenCallSolve ==
    /\ pc = "init"
    /\ i < Num(1)
    /\ stack' = <<Frame(numberOfDisks, 0, 2, 1)>>
    /\ pc' = "solve"
    /\ UNCHANGED <<entry, input, numberOfDisks, i, simulationRods, moves,
                   error, solution, response>>
    /\ entered' = <<Snapshot(simulationRods, moves)>>
    /\ UNCHANGED <<parked, result>>

\* Lines 105-108: a call the safety checks reject returns at once.
SolveReject ==
    /\ pc = "solve"
    /\ stack # <<>>
    /\ Top(stack).at = "entry"
    /\ Rejected(Top(stack))
    /\ stack' = Return(stack)
    /\ UNCHANGED <<pc, entry, input, numberOfDisks, i, simulationRods, moves,
                   error, solution, response>>
    /\ UNCHANGED <<parked, result>>
    /\ TrackCalls

\* Lines 111-126: the base case.
SolveBase ==
    /\ pc = "solve"
    /\ stack # <<>>
    /\ LET f == Top(stack) IN
        /\ f.at = "entry"
        /\ ~Rejected(f)
        /\ IsBaseCase(f)
        /\ IF Rod(simulationRods, f.from) = <<>>
           THEN UNCHANGED <<simulationRods, moves>>
           ELSE /\ simulationRods' = PopPush(simulationRods, f.from, f.to)
                /\ moves' = PushMove(moves, f.from, f.to,
                                     Top(Rod(simulationRods, f.from)))
    /\ stack' = Return(stack)
    /\ UNCHANGED <<pc, entry, input, numberOfDisks, i, error, solution, response>>
    /\ UNCHANGED <<parked, result>>
    /\ TrackCalls

\* Line 130: phase 1.
SolvePhase1 ==
    /\ pc = "solve"
    /\ stack # <<>>
    /\ LET f == Top(stack) IN
        /\ f.at = "entry"
        /\ ~Rejected(f)
        /\ ~IsBaseCase(f)
        /\ stack' = Append(At(stack, "phase2"), Phase1Frame(f))
    /\ UNCHANGED <<pc, entry, input, numberOfDisks, i, simulationRods, moves,
                   error, solution, response>>
    /\ UNCHANGED <<parked, result>>
    /\ TrackCalls

\* Lines 133-148: phase 2, then the call of phase 3.
SolvePhase2 ==
    /\ pc = "solve"
    /\ stack # <<>>
    /\ LET f == Top(stack) IN
        /\ f.at = "phase2"
        /\ IF Rod(simulationRods, f.from) = <<>>
           THEN /\ stack' = Return(stack)
                /\ UNCHANGED <<simulationRods, moves>>
           ELSE /\ simulationRods' = PopPush(simulationRods, f.from, f.to)
                /\ moves' = PushMove(moves, f.from, f.to,
                                     Top(Rod(simulationRods, f.from)))
                /\ stack' = Append(At(stack, "phase3"), Phase3Frame(f))
    /\ UNCHANGED <<pc, entry, input, numberOfDisks, i, error, solution, response>>
    /\ UNCHANGED <<parked, result>>
    /\ TrackCalls

\* Line 149: phase 3 has returned, and so does this call.
SolveReturn ==
    /\ pc = "solve"
    /\ stack # <<>>
    /\ Top(stack).at = "phase3"
    /\ stack' = Return(stack)
    /\ UNCHANGED <<pc, entry, input, numberOfDisks, i, simulationRods, moves,
                   error, solution, response>>
    /\ UNCHANGED <<parked, result>>
    /\ TrackCalls

\* Lines 75-82: the outermost solveHanoi has returned.
GenReturn ==
    /\ pc = "solve"
    /\ stack = <<>>
    /\ solution' = HanoiSolution(numberOfDisks, moves)
    /\ pc' = "returned"
    /\ UNCHANGED <<entry, input, numberOfDisks, i, simulationRods, moves,
                   stack, error, response>>
    /\ UNCHANGED <<entered, parked, result>>

\* generateSolution is over: its direct caller has the result, the callable
\* builds its response (lines 213-216, or the catch block).
Finish ==
    /\ pc \in {"returned", "thrown"}
    /\ response' = IF entry # "handler" THEN response
                   ELSE IF pc = "thrown" THEN CatchResponse(error)
                   ELSE SuccessResponse(solution)
    /\ pc' = "done"
    /\ UNCHANGED <<entry, input, numberOfDisks, i, simulationRods, moves,
                   stack, error, solution>>
    /\ UNCHANGED <<entered, parked, result>>

Next ==
    \/ CallGenerateSolution
    \/ HandleRequest
    \/ GenValidate
    \/ GenInitLoop
    \/ GenCallSolve
    \/ SolveReject
    \/ SolveBase
    \/ SolvePhase1
    \/ SolvePhase2
    \/ SolveReturn
    \/ GenReturn
    \/ Finish

Spec == Init /\ [][Next]_vars

\* The code runs to completion: a step that can be taken is taken.
FairSpec == Spec /\ WF_vars(Next)

----------------------------------------------------------------------------
(* validateSolution called on its own *)

\* Longest move sequence, and largest disk count, validateSolution is given.
MaxValidatedMoves == 3
MaxValidatedDisks == 2

\* Source and destination of the moves it is given: well-formed, the same
\* rod twice, and a rod that is none of A, B, C on either side.
ValidatedRodPairs == {<<"A", "C">>, <<"A", "A">>, <<"D", "C">>, <<"A", "D">>}

\* Their disk sizes: 0, 0.5 and 1.
ValidatedDisks == {0, 1, Num(1)}

ValidatedMoves ==
    {[id |-> "move-1", from |-> p[1], to |-> p[2], disk |-> d, description |-> ""] :
        p \in ValidatedRodPairs, d \in ValidatedDisks}

ValidatedCounts == (-Scale)..Num(MaxValidatedDisks)

ValidatorInit ==
    /\ pc = "validate"
    /\ entry = "validator"
    /\ \E k \in 0..MaxValidatedMoves : moves \in [1..k -> ValidatedMoves]
    /\ numberOfDisks \in ValidatedCounts
    /\ input = [type |-> "moves", val |-> moves]
    /\ i = 0
    /\ simulationRods = <<>>
    /\ stack = <<>>
    /\ error = NoError
    /\ solution = NoSolution
    /\ response = NoResponse
    /\ entered = <<>>
    /\ parked = NoInvocation
    /\ result = NoResult

\* validateSolution(moves, numberOfDisks), lines 157-164: it reads moves and
\* writes nothing.
CallValidate ==
    /\ pc = "validate"
    /\ result' = validateSolution(moves, numberOfDisks)
    /\ pc' = "validated"
    /\ UNCHANGED <<entry, input, numberOfDisks, i, simulationRods, moves, stack,
                   error, solution, response, entered, parked>>

ValidatorSpec == ValidatorInit /\ [][CallValidate]_vars

----------------------------------------------------------------------------
(* solveHanoi called on its own *)

\* Largest number of disks on the rods it is given.
MaxDirectDisks == 2

\* The rod indexes it is given: 0..2, and one below and one above.
RoleIndexes == -1..3

\* The rods holding the disks 1..d, disk k on rod where[k], larger below.
RodsHolding(d, where) ==
    [r \in 1..3 |->
        LET OnRod(size) == where[size \div Scale] = r - 1
        IN  SelectSeq([k \in 1..d |-> Num(d - k + 1)], OnRod)]

DirectInit ==
    /\ pc = "solve"
    /\ entry = "solveHanoi"
    /\ \E d \in 0..MaxDirectDisks : \E where \in [1..d -> 0..2] :
          simulationRods = RodsHolding(d, where)
    /\ \E n \in (-Scale)..Num(MaxDirectDisks) : \E from, to, auxiliary \in RoleIndexes :
          stack = <<Frame(n, from, to, auxiliary)>>
    /\ input = [type |-> "call", val |-> stack[1], rods |-> simulationRods]
    /\ moves = <<>>
    /\ entered = <<Snapshot(simulationRods, moves)>>
    /\ numberOfDisks = 0
    /\ i = 0
    /\ error = NoError
    /\ solution = NoSolution
    /\ response = NoResponse
    /\ parked = NoInvocation
    /\ result = NoResult

DirectNext ==
    \/ SolveReject
    \/ SolveBase
    \/ SolvePhase1
    \/ SolvePhase2
    \/ SolveReturn

DirectSpec == DirectInit /\ [][DirectNext]_vars

----------------------------------------------------------------------------
(* More than one invocation of generateSolution *)

\* What belongs to the running invocation: its arguments, its local
\* variables, its position and its outcome.
Locals ==
    [pc |-> pc, entry |-> entry, input |-> input, numberOfDisks |-> numberOfDisks,
     i |-> i, simulationRods |-> simulationRods, moves |-> moves, stack |-> stack,
     error |-> error, solution |-> solution, response |-> response,
     entered |-> entered]

\* The locals of an invocation at its call generateSolution(x).
Called(x) ==
    [pc |-> "generate", entry |-> "solver", input |-> [type |-> "number", val |-> x],
     numberOfDisks |-> x, i |-> 0, simulationRods |-> <<>>, moves |-> <<>>,
     stack |-> <<>>, error |-> NoError, solution |-> NoSolution,
     response |-> NoResponse, entered |-> <<>>]

ResumeSharingRods(saved, running) ==
    [saved EXCEPT !.simulationRods = running.simulationRods]

\* What an invocation finds when it runs again after another one (`running`)
\* ran: moves and simulationRods are declared inside generateSolution, and
\* the solver is created per request, so all of it is its own.
Resume(saved, running) == saved

\* generateSolution(numberOfDisks) is called once more, after it returned or
\* threw. The variables still hold what the last invocation left in them.
CallAgain ==
    /\ pc = "done"
    /\ parked = NoInvocation
    /\ solution # NoSolution \/ error # NoError
    /\ parked' = Locals
    /\ pc' = "generate"
    /\ error' = NoError
    /\ solution' = NoSolution
    /\ response' = NoResponse
    /\ UNCHANGED <<entry, input, numberOfDisks, i, simulationRods, moves, stack,
                   entered, result>>

SeqNext ==
    \/ CallGenerateSolution
    \/ HandleRequest
    \/ GenValidate
    \/ GenInitLoop
    \/ GenCallSolve
    \/ SolveReject
    \/ SolveBase
    \/ SolvePhase1
    \/ SolvePhase2
    \/ SolveReturn
    \/ GenReturn
    \/ Finish
    \/ CallAgain

\* One invocation after the other.
SeqSpec == Init /\ [][SeqNext]_vars

\* Largest disk count of two invocations that run at once.
MaxConcurrentDisks == 3

\* Their arguments: 0.5, 1, 1.5, ...
ConcurrentInputs == 1..Num(MaxConcurrentDisks)

ConcInit ==
    /\ \E x \in ConcurrentInputs :
        /\ numberOfDisks = x
        /\ input = [type |-> "number", val |-> x]
    /\ \E y \in ConcurrentInputs : parked = Called(y)
    /\ pc = "generate"
    /\ entry = "solver"
    /\ i = 0
    /\ simulationRods = <<>>
    /\ moves = <<>>
    /\ stack = <<>>
    /\ error = NoError
    /\ solution = NoSolution
    /\ response = NoResponse
    /\ entered = <<>>
    /\ result = NoResult

\* The other invocation runs next.
Switch ==
    /\ parked # NoInvocation
    /\ parked.pc # "done"
    /\ LET next == Resume(parked, Locals) IN
        /\ pc' = next.pc
        /\ entry' = next.entry
        /\ input' = next.input
        /\ numberOfDisks' = next.numberOfDisks
        /\ i' = next.i
        /\ simulationRods' = next.simulationRods
        /\ moves' = next.moves
        /\ stack' = next.stack
        /\ error' = next.error
        /\ solution' = next.solution
        /\ response' = next.response
        /\ entered' = next.entered
    /\ parked' = Locals
    /\ UNCHANGED result

ConcNext ==
    \/ GenValidate
    \/ GenInitLoop
    \/ GenCallSolve
    \/ SolveReject
    \/ SolveBase
    \/ SolvePhase1
    \/ SolvePhase2
    \/ SolveReturn
    \/ GenReturn
    \/ Finish
    \/ Switch

\* Two invocations whose steps interleave.
ConcSpec == ConcInit /\ [][ConcNext]_vars

----------------------------------------------------------------------------
(* The puzzle, as the properties below replay it *)

\* The disk counts 1..8, as numbers.
ValidCounts == {Num(k) : k \in MinDisks..MaxDisks}

\* generateSolution(numberOfDisks) has returned a Solution.
Returned == pc \in {"returned", "done"} /\ solution # NoSolution

RodIndex(name) == CHOOSE r \in 0..2 : rodNames[r + 1] = name

\* Rod A holding the disks n..1, bottom to top; B and C empty.
StartRods(n) == <<[k \in 1..(n \div Scale) |-> n - Num(k - 1)], <<>>, <<>>>>

\* All the disks n..1 on rod C; A and B empty.
GoalRods(n) == <<<<>>, <<>>, [k \in 1..(n \div Scale) |-> n - Num(k - 1)]>>

\* Taking the top disk of rod `from` and placing it on rod `to` is legal.
LegalOn(rods, from, to) ==
    /\ Rod(rods, from) # <<>>
    /\ Rod(rods, to) = <<>> \/ Top(Rod(rods, to)) > Top(Rod(rods, from))

Moved(rods, from, to) ==
    LET src == Rod(rods, from)
    IN  [r \in 1..3 |->
            IF r = from + 1 THEN SubSeq(src, 1, Len(src) - 1)
            ELSE IF r = to + 1 THEN Append(rods[r], Top(src))
            ELSE rods[r]]

\* The rods after one move, <<>> when the move is illegal (or a previous
\* one was).
ReplayMove(rods, move) ==
    IF rods = <<>> \/ move.from \notin validRods \/ move.to \notin validRods
    THEN <<>>
    ELSE LET from == RodIndex(move.from)
             to == RodIndex(move.to)
         IN  IF LegalOn(rods, from, to) THEN Moved(rods, from, to) ELSE <<>>

\* The rods after the moves lo..hi of mvs, replayed in order from rods.
RECURSIVE Replay(_, _, _, _)
Replay(rods, mvs, lo, hi) ==
    IF lo > hi THEN rods
    ELSE IF lo = hi THEN ReplayMove(rods, mvs[lo])
    ELSE LET mid == (lo + hi) \div 2
             firstHalf == Replay(rods, mvs, lo, mid)
         IN  IF firstHalf = <<>> THEN <<>> ELSE Replay(firstHalf, mvs, mid + 1, hi)

ReplayAll(n, mvs) == Replay(StartRods(n), mvs, 1, Len(mvs))

----------------------------------------------------------------------------
\* C1: for every n in 1..8, replaying the moves generateSolution(n) returned,
\* from rod A holding n..1 and B, C empty, never takes a disk from an empty
\* rod, never places a larger disk on a smaller one, and ends with all the
\* disks on rod C in the order n..1, A and B empty.
C1_ReplaySolves ==
    (Returned /\ numberOfDisks \in ValidCounts) =>
        ReplayAll(numberOfDisks, solution.moves) = GoalRods(numberOfDisks)

C1_Witness ==
    /\ Returned
    /\ numberOfDisks = Num(MaxDisks)
    /\ Len(solution.moves) > 1
    /\ ReplayAll(numberOfDisks, solution.moves) = GoalRods(numberOfDisks)

\* C2: for every n in 1..8, generateSolution(n) returns exactly 2^n - 1 moves,
\* and totalMoves is that length.
C2_MoveCount ==
    (Returned /\ numberOfDisks \in ValidCounts) =>
        /\ Len(solution.moves) = Pow2(numberOfDisks \div Scale) - 1
        /\ solution.totalMoves = Len(solution.moves)

C2_Witness ==
    /\ Returned
    /\ numberOfDisks = Num(MaxDisks)
    /\ solution.totalMoves = 255

\* A placement of the disks 1..n: the rod (0..2) each disk is on.
StartPlacement(n) == [d \in 1..n |-> 0]
GoalPlacement(n) == [d \in 1..n |-> 2]

\* Disk d is the top of its rod, and no smaller disk is on rod r.
CanMove(c, n, d, r) ==
    /\ r # c[d]
    /\ \A e \in 1..(d - 1) : c[e] # c[d] /\ c[e] # r

LegalMoves(c, n) ==
    {[c EXCEPT ![d] = r] : <<d, r>> \in {m \in (1..n) \X (0..2) : CanMove(c, n, m[1], m[2])}}

\* One more move: the placements reached so far, and those reached last.
Expand(reach, n) ==
    LET next == (UNION {LegalMoves(c, n) : c \in reach.frontier}) \ reach.seen
    IN  [seen |-> reach.seen \cup next, frontier |-> next]

RECURSIVE ExpandTimes(_, _, _)
ExpandTimes(reach, n, k) ==
    IF k <= 0 \/ reach.frontier = {} THEN reach
    ELSE IF k = 1 THEN Expand(reach, n)
    ELSE LET firstHalf == ExpandTimes(reach, n, k \div 2)
         IN  ExpandTimes(firstHalf, n, k - (k \div 2))

\* The placements of n disks that at most k legal moves reach from the start.
ReachableWithin(n, k) ==
    ExpandTimes([seen |-> {StartPlacement(n)}, frontier |-> {StartPlacement(n)}], n, k).seen

\* C3: for every n in 1..8, no sequence of legal single-disk moves shorter
\* than generateSolution(n).moves takes the n disks from rod A to rod C.
C3_Minimal ==
    (Returned /\ numberOfDisks \in ValidCounts) =>
        GoalPlacement(numberOfDisks \div Scale)
            \notin ReachableWithin(numberOfDisks \div Scale, Len(solution.moves) - 1)

C3_Witness ==
    /\ Returned
    /\ numberOfDisks = Num(MaxDisks)
    /\ GoalPlacement(MaxDisks) \in ReachableWithin(MaxDisks, Len(solution.moves))
    /\ GoalPlacement(MaxDisks) \notin ReachableWithin(MaxDisks, Len(solution.moves) - 1)

\* C4: for every n in 1..8, the solution generateSolution(n) returns has
\* isValid = true.
C4_IsValid ==
    (Returned /\ numberOfDisks \in ValidCounts) => solution.isValid = TRUE

C4_Witness ==
    /\ Returned
    /\ numberOfDisks = Num(5)
    /\ solution.isValid = TRUE

\* C5: generateSolution(n) for an integer n < 1 or n > 8 fails with the
\* disk-count error; no rod is initialised, no move is generated and no
\* Solution is returned.
C5_InvalidDiskCount ==
    (entry = "solver" /\ IsInteger(numberOfDisks) /\ numberOfDisks \notin ValidCounts) =>
        /\ simulationRods = <<>>
        /\ moves = <<>>
        /\ stack = <<>>
        /\ solution = NoSolution
        /\ pc \in {"generate", "thrown", "done"}
        /\ pc \in {"thrown", "done"} => error = RangeErrorText

C5_Witness ==
    /\ pc = "done"
    /\ entry = "solver"
    /\ numberOfDisks \in {Num(0), Num(9)}
    /\ error = RangeErrorText
    /\ solution = NoSolution

\* C6: generateSolution fails with an error, before any simulation begins,
\* whenever its argument is not an integer (2.5, say); no Solution is returned.
C6_NonIntegerRejected ==
    (entry = "solver" /\ ~IsInteger(numberOfDisks)) =>
        /\ simulationRods = <<>>
        /\ solution = NoSolution
        /\ pc \in {"generate", "thrown", "done"}
        /\ pc \in {"thrown", "done"} => error # NoError

Step(mvs, k) == <<mvs[k].disk, mvs[k].from, mvs[k].to>>

\* C7, as claimed: for n = 3 generateSolution returns exactly 7 moves, the 7th
\* places disk 3 on rod C, and the sequence passes the structural validator.
C7_LastMoveIsDiskThree ==
    (Returned /\ numberOfDisks = Num(3)) =>
        /\ Len(solution.moves) = 7
        /\ solution.moves[7].disk = Num(3)
        /\ solution.moves[7].to = "C"
        /\ validateSolution(solution.moves, Num(3))

\* C7, amended: for n = 3 generateSolution returns exactly 7 moves, the 7th
\* places disk 1 on rod C (disk 3 is placed on rod C by the 4th move), and the
\* sequence passes the structural validator.
C7_ThreeDisks ==
    (Returned /\ numberOfDisks = Num(3)) =>
        /\ Len(solution.moves) = 7
        /\ Step(solution.moves, 7) = <<Num(1), "A", "C">>
        /\ Step(solution.moves, 4) = <<Num(3), "A", "C">>
        /\ validateSolution(solution.moves, Num(3))

C7_Witness ==
    /\ Returned
    /\ numberOfDisks = Num(3)
    /\ Len(solution.moves) = 7
    /\ solution.isValid

\* C8: for n = 1 the solution is the one move disk 1 A -> C; for n = 2 it is
\* the three moves disk 1 A -> B, disk 2 A -> C, disk 1 B -> C.
C8_OneAndTwoDisks ==
    /\ (Returned /\ numberOfDisks = Num(1)) =>
        /\ Len(solution.moves) = 1
        /\ Step(solution.moves, 1) = <<Num(1), "A", "C">>
    /\ (Returned /\ numberOfDisks = Num(2)) =>
        /\ Len(solution.moves) = 3
        /\ Step(solution.moves, 1) = <<Num(1), "A", "B">>
        /\ Step(solution.moves, 2) = <<Num(2), "A", "C">>
        /\ Step(solution.moves, 3) = <<Num(1), "B", "C">>

C8_Witness ==
    /\ Returned
    /\ numberOfDisks = Num(2)
    /\ Len(solution.moves) = 3

\* The two kinds of invalid disk count of a request.
IsNotANumber(d) == d.type # "number"
IsOutOfRange(d) == d.type = "number" /\ (d.val < Num(1) \/ d.val > Num(8))

\* C9: the response to a request with an invalid disk count carries a reason
\* that tells "out of range" from "not a number": the error text of a response
\* of one kind is the error text of no response of the other kind.
C9_ReasonsDistinguished ==
    (pc = "done" /\ entry = "handler" /\ (IsNotANumber(input) \/ IsOutOfRange(input))) =>
        /\ response.success = FALSE
        /\ \A d \in RequestValues :
              (IsNotANumber(d) /\ IsOutOfRange(input)) \/ (IsOutOfRange(d) /\ IsNotANumber(input))
                  => CatchResponse(HandlerValidation(d)).error # response.error

\* C10: in a returned Solution the i-th move's id is 'move-i', so the ids are
\* unique and sequential from one.
C10_MoveIds ==
    Returned =>
        /\ \A k \in 1..Len(solution.moves) :
              solution.moves[k].id = "move-" \o ToString(k)
        /\ \A j, k \in 1..Len(solution.moves) :
              j # k => solution.moves[j].id # solution.moves[k].id

C10_Witness ==
    /\ Returned
    /\ Len(solution.moves) = 15
    /\ solution.moves[15].id = "move-15"

\* A move as the claim has it well-formed: both rods among A, B, C and
\* different, the disk size a positive integer.
WellFormedMove(move) ==
    /\ move.from \in {"A", "B", "C"}
    /\ move.to \in {"A", "B", "C"}
    /\ move.from # move.to
    /\ move.disk > 0
    /\ IsInteger(move.disk)

\* len = 2^n - 1, which no length is unless n is an integer >= 0.
IsMinimalCount(len, n) == IsInteger(n) /\ n >= 0 /\ len = Pow2(n \div Scale) - 1

\* C11: validateSolution(moves, n) returns true if and only if moves.length is
\* 2^n - 1 and every move has from and to in {A, B, C}, from # to and a disk
\* size that is a positive integer; and it leaves moves as it was given.
C11_ValidatorIff ==
    pc = "validated" =>
        /\ result = (/\ IsMinimalCount(Len(moves), numberOfDisks)
                     /\ \A k \in 1..Len(moves) : WellFormedMove(moves[k]))
        /\ moves = input.val

\* C12: for every n in 1..8, two separate invocations of generateSolution(n)
\* return identical move sequences: the same length and, at each position, the
\* same id, from, to, disk and description.
C12_Deterministic ==
    (Returned /\ parked # NoInvocation /\ numberOfDisks \in ValidCounts
        /\ parked.numberOfDisks = numberOfDisks) =>
        /\ Len(solution.moves) = Len(parked.solution.moves)
        /\ \A k \in 1..Len(solution.moves) :
            /\ solution.moves[k].id = parked.solution.moves[k].id
            /\ solution.moves[k].from = parked.solution.moves[k].from
            /\ solution.moves[k].to = parked.solution.moves[k].to
            /\ solution.moves[k].disk = parked.solution.moves[k].disk
            /\ solution.moves[k].description = parked.solution.moves[k].description

C12_Witness ==
    /\ Returned
    /\ parked # NoInvocation
    /\ numberOfDisks = Num(MaxDisks)
    /\ parked.numberOfDisks = numberOfDisks
    /\ Len(parked.solution.moves) = 255
    /\ solution.moves = parked.solution.moves

\* The classic solution for the k smallest disks, as <<disk, from, to>> with
\* rods 0..2.
RECURSIVE ClassicMoves(_, _, _, _)
ClassicMoves(k, from, to, auxiliary) ==
    IF k = 0 THEN <<>>
    ELSE ClassicMoves(k - 1, from, auxiliary, to)
            \o <<<<k, from, to>>>>
            \o ClassicMoves(k - 1, auxiliary, to, from)

\* The Solution generateSolution(n) returns when it runs alone, n in 1..8.
AloneSolution(n) ==
    LET classic == ClassicMoves(n \div Scale, 0, 2, 1)
    IN  [numberOfDisks |-> n,
         moves |-> [k \in 1..Len(classic) |->
                       [id |-> "move-" \o ToString(k),
                        from |-> rodNames[classic[k][2] + 1],
                        to |-> rodNames[classic[k][3] + 1],
                        disk |-> Num(classic[k][1]),
                        description |-> "Take disk " \o ToString(classic[k][1])
                            \o " from rod " \o rodNames[classic[k][2] + 1]
                            \o " to rod " \o rodNames[classic[k][3] + 1]]],
         totalMoves |-> Len(classic),
         source |-> "cloud_generated",
         isValid |-> TRUE]

\* An invocation, given by its locals, has returned for a disk count in 1..8.
ReturnedFor(inv) ==
    /\ inv.pc \in {"returned", "done"}
    /\ inv.solution # NoSolution
    /\ inv.numberOfDisks \in ValidCounts

\* What generateSolution returns when it runs alone is AloneSolution.
AloneSolutionIsReturned == ReturnedFor(Locals) => solution = AloneSolution(numberOfDisks)

\* C17: two invocations of generateSolution whose steps interleave share
\* neither rods nor moves: under every interleaving each returns exactly the
\* solution it returns when run alone, and leaves its own rods solved.
C17_Independent ==
    /\ ReturnedFor(Locals) =>
        /\ solution = AloneSolution(numberOfDisks)
        /\ simulationRods = GoalRods(numberOfDisks)
    /\ (parked # NoInvocation /\ ReturnedFor(parked)) =>
        /\ parked.solution = AloneSolution(parked.numberOfDisks)
        /\ parked.simulationRods = GoalRods(parked.numberOfDisks)

\* One invocation has returned while the other is halfway through its moves.
C17_Witness ==
    /\ ReturnedFor(Locals)
    /\ numberOfDisks = Num(3)
    /\ solution = AloneSolution(Num(3))
    /\ parked.pc = "solve"
    /\ parked.numberOfDisks = Num(2)
    /\ Len(parked.moves) = 2

\* How many times disk d lies on the rods.
Occurrences(rods, d) ==
    Cardinality({p \in (1..3) \X (1..MaxDisks) : p[2] <= Len(rods[p[1]]) /\ rods[p[1]][p[2]] = d})

\* Strictly decreasing from bottom to top.
Decreasing(rod) == \A k \in 1..(Len(rod) - 1) : rod[k] > rod[k + 1]

\* C13: during generateSolution(n), n in 1..8, once the rods are initialised
\* and after each move, the three stacks together hold each disk 1..n exactly
\* once, and each stack is strictly decreasing from bottom to top.
C13_RodsInvariant ==
    (pc \in {"solve", "returned", "done"} /\ simulationRods # <<>>
        /\ numberOfDisks \in ValidCounts) =>
        /\ \A d \in 1..(numberOfDisks \div Scale) : Occurrences(simulationRods, Num(d)) = 1
        /\ Len(simulationRods[1]) + Len(simulationRods[2]) + Len(simulationRods[3])
              = numberOfDisks \div Scale
        /\ \A r \in 1..3 : Decreasing(simulationRods[r])

C13_Witness ==
    /\ pc = "solve"
    /\ numberOfDisks = Num(5)
    /\ Len(moves) > 3
    /\ \A r \in 1..3 : simulationRods[r] # <<>> /\ Decreasing(simulationRods[r])
    /\ Len(simulationRods[2]) > 1

\* The running solveHanoi call is where it must emit a move (the base case
\* n == 1, or phase 2) and its source rod is empty.
MustEmitFromEmptyRod ==
    /\ pc = "solve"
    /\ stack # <<>>
    /\ \/ Top(stack).at = "entry" /\ ~Rejected(Top(stack)) /\ Top(stack).n = Num(1)
       \/ Top(stack).at = "phase2"
    /\ Rod(simulationRods, Top(stack).from) = <<>>

\* C14: when solveHanoi must emit a move and the source rod is empty, the
\* solve attempt fails with an error: the move is not silently skipped, and
\* no Solution with moves missing is returned.
C14_FailsFast ==
    [][MustEmitFromEmptyRod =>
          /\ pc' = "thrown"
          /\ error' # NoError
          /\ solution' = NoSolution]_vars

\* The rods after one move, taken as the move says: the top disk of its from
\* rod goes on its to rod. <<>> when that disk is not the move's disk, when
\* there is none, or when an earlier move failed so.
TraceMove(rods, move) ==
    IF rods = <<>> \/ move.from \notin validRods \/ move.to \notin validRods
    THEN <<>>
    ELSE LET from == RodIndex(move.from)
             to == RodIndex(move.to)
         IN  IF Rod(rods, from) # <<>> /\ Top(Rod(rods, from)) = move.disk
             THEN Moved(rods, from, to)
             ELSE <<>>

\* The rods after the moves lo..hi of mvs, each taken so.
RECURSIVE Trace(_, _, _, _)
Trace(rods, mvs, lo, hi) ==
    IF lo > hi THEN rods
    ELSE IF lo = hi THEN TraceMove(rods, mvs[lo])
    ELSE LET mid == (lo + hi) \div 2
             firstHalf == Trace(rods, mvs, lo, mid)
         IN  IF firstHalf = <<>> THEN <<>> ELSE Trace(firstHalf, mvs, mid + 1, hi)

\* C15: every emitted move is a faithful trace of the simulation: the i-th
\* move's disk is the top disk of its from rod in the rods obtained after the
\* first i-1 moves, and it is placed on its to rod; so the moves, taken in
\* order from the initial rods, lead to the rods the simulation ends with.
C15_FaithfulTrace ==
    Returned =>
        Trace(StartRods(numberOfDisks), solution.moves, 1, Len(solution.moves))
            = simulationRods

C15_Witness ==
    /\ Returned
    /\ numberOfDisks = Num(6)
    /\ Len(solution.moves) = 63
    /\ Trace(StartRods(numberOfDisks), solution.moves, 1, 63) = simulationRods

\* The rod roles of a call are not pairwise distinct, or one is outside 0..2,
\* or its n is <= 0.
BadCall(f) ==
    \/ Cardinality({f.from, f.to, f.auxiliary}) < 3
    \/ {f.from, f.to, f.auxiliary} \ {0, 1, 2} # {}
    \/ f.n <= 0

\* C16: a call of solveHanoi whose rod roles are not pairwise distinct, or
\* whose roles are not all in 0..2, or whose n is <= 0, returns at once and
\* leaves the rods and the moves as they were.
C16_BadCallReturns ==
    [][(pc = "solve" /\ stack # <<>> /\ Top(stack).at = "entry" /\ BadCall(Top(stack))) =>
          /\ stack' = Return(stack)
          /\ simulationRods' = simulationRods
          /\ moves' = moves]_vars

\* solveHanoi(1, 0, 0, 1, ...) on a loaded rod 0 has returned.
C16_Witness ==
    /\ entry = "solveHanoi"
    /\ stack = <<>>
    /\ input.val.n = Num(1)
    /\ input.val.from = input.val.to
    /\ input.rods[1] # <<>>
    /\ simulationRods = input.rods
    /\ moves = <<>>

\* No more than n calls of solveHanoi are active.
DepthWithinCount ==
    numberOfDisks \in ValidCounts => Len(stack) <= numberOfDisks \div Scale

\* C18: for every n in 1..8, generateSolution(n) terminates, and the nesting
\* depth of the active solveHanoi calls never exceeds n.
C18_TerminatesWithinDepth ==
    /\ []DepthWithinCount
    /\ (pc = "generate" /\ numberOfDisks \in ValidCounts)
          ~> (pc = "done" /\ solution # NoSolution /\ stack = <<>>)

\* The recursion is n calls deep, at its base case.
C18_Witness ==
    /\ pc = "solve"
    /\ numberOfDisks = Num(MaxDisks)
    /\ Len(stack) = MaxDisks
    /\ Top(stack).n = Num(1)

\* The k topmost elements of a stack, and the stack without them.
TopK(rod, k) == SubSeq(rod, Len(rod) - k + 1, Len(rod))
WithoutTopK(rod, k) == SubSeq(rod, 1, Len(rod) - k)

\* What the call f has done when it returns leaving rods and mvs, having
\* started from `before`: the top k disks of its from rod, which are k..1,
\* lie on its to rod in the same order, 2^k - 1 moves were emitted, and the
\* rest is as it was.
FrameEffect(f, before, rods, mvs) ==
    LET k == f.n \div Scale
        source == Rod(before.rods, f.from)
    IN  /\ IsInteger(f.n)
        /\ k <= Len(source)
        /\ TopK(source, k) = [j \in 1..k |-> Num(k - j + 1)]
        /\ Rod(rods, f.from) = WithoutTopK(source, k)
        /\ Rod(rods, f.to) = Rod(before.rods, f.to) \o TopK(source, k)
        /\ Rod(rods, f.auxiliary) = Rod(before.rods, f.auxiliary)
        /\ Len(mvs) = before.count + Pow2(k) - 1

\* C19: every call solveHanoi(k, from, to, auxiliary) made during
\* generateSolution(n), n in 1..8, has on its return moved exactly the top k
\* disks of rod from (the disks 1..k) onto rod to in the same order, emitted
\* exactly 2^k - 1 moves, and left rod auxiliary, the other disks of rod from
\* and the earlier disks of rod to as they were when it was called.
C19_FrameEffect ==
    [][(pc = "solve" /\ numberOfDisks \in ValidCounts /\ Len(stack') < Len(stack)) =>
          FrameEffect(Top(stack), Top(entered), simulationRods', moves')]_vars

\* A call for 4 disks is about to return, inside generateSolution(6).
C19_Witness ==
    /\ pc = "solve"
    /\ numberOfDisks = Num(6)
    /\ stack # <<>>
    /\ Top(stack).at = "phase3"
    /\ Top(stack).n = Num(4)
    /\ FrameEffect(Top(stack), Top(entered), simulationRods, moves)

\* The rods before the first move and after each move of mvs, for n disks.
RodsVisited(n, mvs) == {Trace(StartRods(n), mvs, 1, k) : k \in 0..Len(mvs)}

\* C20: during generateSolution(n), n in 1..8, no rod configuration occurs
\* twice: the 2^n rod states visited (the initial one and the one after each
\* move) are pairwise distinct; and no two consecutive moves move the same
\* disk.
C20_NoRepeat ==
    (Returned /\ numberOfDisks \in ValidCounts) =>
        /\ Cardinality(RodsVisited(numberOfDisks, solution.moves))
              = Pow2(numberOfDisks \div Scale)
        /\ <<>> \notin RodsVisited(numberOfDisks, solution.moves)
        /\ Trace(StartRods(numberOfDisks), solution.moves, 1, Len(solution.moves))
              = simulationRods
        /\ \A k \in 1..(Len(solution.moves) - 1) :
              solution.moves[k].disk # solution.moves[k + 1].disk

C20_Witness ==
    /\ Returned
    /\ numberOfDisks = Num(7)
    /\ Cardinality(RodsVisited(numberOfDisks, solution.moves)) = 128

====
